---- MODULE Spec2Model ----
(***************************************************************************)
(* The evidence pipeline of forensic_locator: the useVerification hook     *)
(* (src/hooks/useVerification.ts), the GeminiService it drives             *)
(* (src/unnamed/part_002), the Analyze button of App.tsx that starts runs, *)
(* and the proxy search handler the imagery client talks to                *)
(* (src/server/README.md).                                                 *)
(*                                                                         *)
(* A run of runVerification is an async function: the code between two     *)
(* awaits executes atomically on the JS event loop, so every action below  *)
(* is one such segment, from the resumption of an await to the next await  *)
(* (or to the end of the function).  pc[r] names the await run r is        *)
(* suspended at.                                                           *)
(*                                                                         *)
(* Encodings.  A JS value that may be undefined/null is a sequence: <<>>   *)
(* when absent, <<v>> when present.  A parsed JSON object is a record      *)
(* holding exactly the properties present; JSON null is JNull.  Strings    *)
(* that hold a date ("2024-10-23") are day numbers; a claimedTimestamp     *)
(* is the sequence of its 'T'-separated parts (<<>> is the empty string).  *)
(* Coordinates are in hundredths of a degree.                              *)
(***************************************************************************)
EXTENDS Integers, Sequences, FiniteSets, TLC

\* ---------------------------------------------------------------- bounds
MaxRuns == 2
MaxTicks == 1
MaxMatches == 6
MaxRequests == 2

\* ------------------------------------------------------ program constants
FallbackLatitude == 3150
FallbackLongitude == 3445
FallbackConfidence == 30
LookbackDays == 30
SearchLimit == 5
LogSliceLen == 3
Day0 == 100

Runs == 1..MaxRuns
None == <<>>
Some(v) == <<v>>

InvalidFormatMsg == "AI returned a report in an invalid format."
UnknownErrorMsg == "An unknown error occurred."
ImagerySearchFailedMsg == "Imagery search failed"
TypeErrorMsg == "TypeError: Cannot read properties"
FailMsgs == {"503 Service Unavailable"}

Verdict == {"Verified", "Disputed", "Inconclusive"}
LogType == {"info", "processing", "success", "warning", "error"}

\* JSON.parse results: null, or an object with the properties present.
JNull == [null |-> TRUE]
Get(v, f) == IF f \in DOMAIN v THEN Some(v[f]) ELSE None
TruthyNum(o) == o # None /\ o[1] # 0
TruthyStr(o) == o # None /\ o[1] # ""
\* An object literal in which the properties written first win.
MergeFirstWins(a, b) ==
  [f \in DOMAIN a \cup DOMAIN b |-> IF f \in DOMAIN a THEN a[f] ELSE b[f]]
Merge(a, b) == [f \in DOMAIN a \cup DOMAIN b |-> IF f \in DOMAIN b THEN b[f] ELSE a[f]]
\* {...v}: the own properties of an object, nothing for null.
Spread(v) == IF v = JNull THEN <<>> ELSE v

\* ------------------------------------------------- what the services send
\* Prose a completion call resolves with: response.text, possibly undefined.
Texts == {None, Some("prose")}
\* Text of a call that was asked for JSON: undefined, or text whose body is
\* the JSON of value v (body = <<v>>) or is not JSON (body = <<>>), wrapped
\* in ``` fences or not.
JsonTexts(values) ==
  {None} \cup {Some([fenced |-> f, body |-> b]) :
                 f \in BOOLEAN, b \in {None} \cup {Some(v) : v \in values}}
\* text.replace(/```json|```/g, '').trim()
StripFences(t) == [fenced |-> FALSE, body |-> t.body]
\* JSON.parse: <<v>> for the value parsed, <<>> when it throws SyntaxError.
JSONParse(t) == IF t.fenced THEN None ELSE t.body
\* The body of the try blocks that parse a response: <<>> when it threw
\* (text undefined: TypeError on .replace; not JSON: SyntaxError).
ParseResponse(text) == IF text = None THEN None ELSE JSONParse(StripFences(text[1]))
\* groundingChunks of the grounded call: each chunk has a web part or not.
WebChunk == [web |-> [title |-> "t", uri |-> "u"]]
OtherChunk == [retrievedContext |-> "c"]
ChunkLists == {<<>>, <<WebChunk>>, <<OtherChunk, WebChunk>>}

\* JSON values the structuring call can return (after JSON.parse).  The
\* address property holds <<text>> (the fallback may store undefined, <<>>).
LocationValues ==
  { JNull,
    [address |-> Some("Gaza City"), latitude |-> 3152, longitude |-> 3447,
     confidence |-> 80, accuracy |-> "city"],
    [address |-> Some("Null Island"), latitude |-> 0, longitude |-> 3447,
     confidence |-> 10, accuracy |-> "city"],
    [address |-> Some("nowhere"), latitude |-> 12345, longitude |-> 3447,
     confidence |-> 90, accuracy |-> "exact"],
    [address |-> Some("somewhere")] }

\* JSON values the timestamp call can return.
TimeValues ==
  { JNull,
    [estimatedTimeOfDay |-> "14:00-16:00", confidence |-> 70,
     primaryMethod |-> "shadows", reasoning |-> "short shadows"],
    [estimatedTimeOfDay |-> "unknown", confidence |-> 5,
     primaryMethod |-> "other", reasoning |-> "no cues"],
    [estimatedTimeOfDay |-> "09:00-10:00", confidence |-> 40] }

\* JSON values the report call can return.
ReportValues ==
  { JNull,
    [verdict |-> "Verified", confidenceScore |-> 85],
    [verdict |-> "Maybe", confidenceScore |-> 150],
    [verdict |-> "Disputed", confidenceScore |-> 40,
     groundingSources |-> <<[title |-> "forged", uri |-> "x"]>>,
     satelliteData |-> Some([available |-> TRUE])] }

\* claimedTimestamp as handed to runVerification.
\* A date string that new Date() cannot parse is a negative day number.
InvalidDates == {0 - 1}
ValidDate(d) == d \notin InvalidDates
ClaimedTimestamps == {<<>>, <<Day0 - 10, 1030>>} \cup {<<d>> : d \in InvalidDates}

VARIABLES
  apiKeySet,   \* process.env.API_KEY is set (fixed for the session)
  today,       \* the current date, as new Date() reads it
  isLoading, log, report, error,   \* the hook's four useState cells
  pc,          \* pc[r]: where run r is suspended
  frame,       \* frame[r]: the locals of run r's activation
  inflight,    \* external calls issued and not yet resolved
  lastSettled, \* what the step into this state consumed: <<>>, or <<answer>>
  proxy,       \* proxy[i]: HTTP request i to the proxy server and its handling
  credentialsSet  \* COPERNICUS_CLIENT_ID and _SECRET are set (fixed)

hookVars == <<apiKeySet, today, isLoading, log, report, error, pc, frame, inflight,
              lastSettled>>
vars == <<hookVars, proxy, credentialsSet>>

\* What an async method settles with: a value, or a thrown value (thrown is
\* <<message>> for an Error, <<>> for anything else).
Ok(v) == [threw |-> FALSE, value |-> v]
Throw(thrown) == [threw |-> TRUE, thrown |-> thrown]

Entry(type, text, arg, r) == [type |-> type, text |-> text, arg |-> arg, run |-> r]
Call(r, kind, arg) == [run |-> r, kind |-> kind, arg |-> arg]

\* A request slot of the proxy before any request uses it.
NoRequest ==
  [op |-> "none", pc |-> "idle", q |-> None, client |-> None, token |-> None,
   calls |-> <<>>, catalog |-> None, thumbnail |-> None, thrown |-> None,
   response |-> None, result |-> None]

EmptyFrame ==
  [claimedTimestamp |-> <<>>, clues |-> None, locationText |-> None, sources |-> <<>>,
   locationData |-> None, satelliteData |-> None, timeData |-> None,
   issued |-> <<>>]

HookInit ==
  /\ apiKeySet \in BOOLEAN
  /\ today = Day0
  /\ isLoading = FALSE
  /\ log = <<>>
  /\ report = None
  /\ error = None
  /\ pc = [r \in Runs |-> "idle"]
  /\ frame = [r \in Runs |-> EmptyFrame]
  /\ inflight = {}
  /\ lastSettled = None

Init ==
  /\ HookInit
  /\ proxy = [i \in 1..MaxRequests |-> NoRequest]
  /\ credentialsSet = TRUE

\* addLogEntry putting the entry in front: setLog(prev => [entry, ...prev]).
addLogEntryFirst(lg, type, text, arg, r) ==
  <<[type |-> type, text |-> text, arg |-> arg, run |-> r]>> \o lg

\* addLogEntry: setLog(prev => [...prev, entry]), applied to the log lg.
addLogEntry(lg, type, text, arg, r) == Append(lg, Entry(type, text, arg, r))

\* The run suspends at await p with locals fr, having consumed the responses
\* in resolved and started the external calls in started (a sequence); the
\* frame's issued field lists the kinds of the calls the run has started.
Await(r, lg, p, fr, resolved, started) ==
  /\ log' = lg
  /\ pc' = [pc EXCEPT ![r] = p]
  /\ frame' = [frame EXCEPT ![r] =
                 [fr EXCEPT !.issued = @ \o [i \in 1..Len(started) |-> started[i].kind]]]
  /\ inflight' = (inflight \ resolved) \cup {started[i] : i \in 1..Len(started)}
  /\ UNCHANGED <<apiKeySet, today, isLoading, report, error, proxy, credentialsSet>>

\* catch (e) { setError; addLogEntry('error', ...) } finally { setIsLoading(false) }
\* thrown is <<message>> for an Error and <<>> for any other thrown value.
Catch(r, lg, thrown, resolved) ==
  LET errorMessage == IF thrown # None THEN thrown[1] ELSE UnknownErrorMsg
  IN /\ error' = Some(errorMessage)
     /\ log' = addLogEntry(lg, "error", "Verification failed", errorMessage, r)
     /\ isLoading' = FALSE
     /\ pc' = [pc EXCEPT ![r] = "done"]
     /\ frame' = [frame EXCEPT ![r] = EmptyFrame]
     /\ inflight' = inflight \ resolved
     /\ UNCHANGED <<apiKeySet, today, report, proxy, credentialsSet>>

\* ------------------------------------------------------ the imagery client
\* ImageryFallback with the date of the catch in place of the date given.
ImageryFallbackToday(lat, lon, date) ==
  [available |-> FALSE, location |-> [lat |-> lat, lon |-> lon], searchDate |-> today]

\* getSatelliteImagery's catch block: the fallback it resolves with.
ImageryFallback(lat, lon, date) ==
  [available |-> FALSE,
   location |-> [lat |-> lat, lon |-> lon],
   searchDate |-> IF date # None THEN date[1] ELSE today]

\* Lines 48-50: beforeDate.setDate(beforeDate.getDate() - 30) steps back 30
\* calendar days in the browser's local time, and toISOString() reads the
\* result's date in UTC.  When a daylight-saving change of the browser's
\* zone lies between the two local dates the instant moves by an hour more
\* or less than 30 * 24 hours: from the UTC midnight a date string parses to
\* it stays on the day or falls on the day before; from a time of day of
\* new Date() it may also fall on the day after.
Lookbacks(date) ==
  IF date # None THEN {LookbackDays, LookbackDays + 1}
  ELSE {LookbackDays - 1, LookbackDays, LookbackDays + 1}

\* The query string getSatelliteImagery builds; <<>> when building it throws
\* (toISOString of an Invalid Date raises RangeError).
\* back is the distance Lookbacks allows between the two dates.
SearchQuery(lat, lon, date, back) ==
  LET targetDate == IF date # None THEN date[1] ELSE today
  IN IF ~ValidDate(targetDate) THEN None
     ELSE Some([lat |-> Some(lat), lon |-> Some(lon),
                startDate |-> targetDate - back,
                endDate |-> targetDate,
                limit |-> SearchLimit])

\* ------------------------------------------------------------- the proxy
\* A thrown Error: its message, its code and the code of its cause ("" when
\* it has none).  Node's fetch reports a DNS failure as TypeError('fetch
\* failed') whose cause carries code EAI_AGAIN.
Err(message, code, causeCode) == [message |-> message, code |-> code, causeCode |-> causeCode]
NetErrors ==
  { Err("fetch failed", "", "EAI_AGAIN"),
    Err("getaddrinfo EAI_AGAIN", "EAI_AGAIN", ""),
    Err("fetch failed", "", "ECONNREFUSED") }
SyntaxError == Err("Unexpected token", "", "")
TypeError == Err("Cannot read properties", "", "")
NetworkHint == "Network error: Unable to reach Copernicus servers."

\* What a fetch of the proxy to its upstream settles with: a rejection, or
\* a response whose body is JSON (<<v>>) or not (<<>>).
UpFail(e) == [rejected |-> TRUE, error |-> e]
UpResp(ok, status, body) == [rejected |-> FALSE, ok |-> ok, status |-> status, body |-> body]

\* What the token endpoint can do when asked for a token; tok is the token
\* it would grant.
TokenOutcomes(tok) ==
  {UpFail(e) : e \in NetErrors}
  \cup { UpResp(FALSE, 401, None),
         UpResp(TRUE, 200, None),
         UpResp(TRUE, 200, Some([token_type |-> "Bearer"])),
         UpResp(TRUE, 200, Some([access_token |-> tok])) }

RECURSIVE Products(_, _)
\* n products of the archive, latest capture first.
Products(n, endDate) ==
  IF n = 0 THEN <<>>
  ELSE <<[Id |-> n, Name |-> "S2", ContentDate |-> [Start |-> endDate - 1],
          CloudCover |-> 5, S3Path |-> "/eodata"]>> \o Products(n - 1, endDate - 1)
Reverse(s) == [i \in 1..Len(s) |-> s[Len(s) + 1 - i]]
Min(a, b) == IF a < b THEN a ELSE b

\* The catalog's answer to query cq when n products of the archive match:
\* $orderby sorts them, $top truncates them.
CatalogAnswer(cq, n) ==
  LET all == Products(n, cq.end)
      sorted == IF cq.orderby = "ContentDate/Start desc" THEN all ELSE Reverse(all)
  IN SubSeq(sorted, 1, Min(Len(sorted), cq.top))

\* What the catalog can do with query cq; counts are the numbers of matching
\* products tried.
CatalogOutcomes(cq, counts) ==
  { UpFail(Err("fetch failed", "", "EAI_AGAIN")),
         UpResp(FALSE, 503, None),
         UpResp(TRUE, 200, None),
         UpResp(TRUE, 200, Some(JNull)),
         UpResp(TRUE, 200, Some([count |-> 0])) }
  \cup {UpResp(TRUE, 200, Some([value |-> CatalogAnswer(cq, n)])) : n \in counts}

\* details of the search and thumbnail envelopes (lines 411-415, 470-474).
Details(e) ==
  IF e.causeCode = "EAI_AGAIN" \/ e.code = "EAI_AGAIN" THEN NetworkHint ELSE e.message
\* details of the auth envelope (lines 316-318).
AuthDetails(e) == IF e.code = "EAI_AGAIN" THEN NetworkHint ELSE e.message

ErrorEnvelope(status, kind, message, details) ==
  [status |-> status, ok |-> FALSE,
   body |-> Some([error |-> kind, message |-> message, details |-> details])]

\* The validation answering a query without lat or lon with status 422.
SearchValidateUnprocessable(q) ==
  IF q.lat = None \/ q.lon = None
  THEN Some([status |-> 422, ok |-> FALSE,
             body |-> Some([error |-> "Missing required parameters",
                            message |-> "Latitude and longitude are required"])])
  ELSE None

\* Lines 328-333: the answer to a search query without lat or lon (a query
\* parameter is <<>> when missing or empty), <<>> when both are there.
SearchValidate(q) ==
  IF q.lat = None \/ q.lon = None
  THEN Some([status |-> 400, ok |-> FALSE,
             body |-> Some([error |-> "Missing required parameters",
                            message |-> "Latitude and longitude are required"])])
  ELSE None

\* Lines 336-356 (and 425-445): the token fetch settled with resp; failed is
\* the message thrown on a response that is not OK.
TokenOf(resp, failed) ==
  IF resp.rejected THEN Throw(resp.error)
  ELSE IF ~resp.ok THEN Throw(Err(failed, "", ""))
  ELSE IF resp.body = None THEN Throw(SyntaxError)
  ELSE Ok(Get(resp.body[1], "access_token"))

\* The catalog query with its window always ending now.
CatalogQueryNow(q, now) ==
  [lat |-> q.lat[1], lon |-> q.lon[1], start |-> now - LookbackDays, end |-> now,
   orderby |-> "ContentDate/Start desc",
   top |-> IF "limit" \in DOMAIN q THEN q.limit ELSE SearchLimit]

\* The catalog query without its $orderby.
CatalogQueryUnordered(q, now) ==
  LET endDate == IF "endDate" \in DOMAIN q THEN q.endDate ELSE now
      startDate == IF "startDate" \in DOMAIN q THEN q.startDate ELSE endDate - LookbackDays
  IN [lat |-> q.lat[1], lon |-> q.lon[1], start |-> startDate, end |-> endDate,
      orderby |-> "",
      top |-> IF "limit" \in DOMAIN q THEN q.limit ELSE SearchLimit]

\* Lines 358-368: the catalog query of search query q.
CatalogQuery(q, now) ==
  LET endDate == IF "endDate" \in DOMAIN q THEN q.endDate ELSE now
      startDate == IF "startDate" \in DOMAIN q THEN q.startDate ELSE endDate - LookbackDays
  IN [lat |-> q.lat[1], lon |-> q.lon[1], start |-> startDate, end |-> endDate,
      orderby |-> "ContentDate/Start desc",
      top |-> IF "limit" \in DOMAIN q THEN q.limit ELSE SearchLimit]

\* What lines 370-382 throw when the catalog settled with resp: <<error>>,
\* or <<>> when they throw nothing.
CatalogError(resp) ==
  IF resp.rejected THEN Some(resp.error)
  ELSE IF ~resp.ok THEN Some(Err("Search failed: 503", "", ""))
  ELSE IF resp.body = None THEN Some(SyntaxError)
  ELSE IF resp.body[1] = JNull THEN Some(TypeError)
  ELSE None

\* What lines 450-461 throw when the thumbnail fetch settled with resp: the
\* fetch's rejection, the error of a response that is not ok, or the
\* rejection of arrayBuffer() when the body cannot be read.
ThumbnailError(resp) ==
  IF resp.rejected THEN Some(resp.error)
  ELSE IF ~resp.ok THEN Some(Err("Thumbnail fetch failed", "", ""))
  ELSE IF resp.body = None THEN Some(Err("terminated", "", ""))
  ELSE None

\* The content-type header of the upstream response passed on as it came.
ContentTypeUpstream(resp) == resp.contentType

\* thumbnailResponse.headers.get('content-type') || 'image/png', line 462;
\* "" stands for a response without the header.
ContentType(resp) == IF resp.contentType = "" THEN "image/png" ELSE resp.contentType

\* What the thumbnail handler answers once the thumbnail fetch settled with
\* resp (lines 456-475).
ThumbnailRespond(resp) ==
  IF ThumbnailError(resp) # None
  THEN ErrorEnvelope(500, "Thumbnail fetch failed", ThumbnailError(resp)[1].message,
                     Details(ThumbnailError(resp)[1]))
  ELSE [status |-> 200, ok |-> TRUE, body |-> resp.body,
        contentType |-> ContentType(resp)]

\* searchData.value.map(item => ({...})), lines 383-389.
ImageryOf(value) ==
  [i \in 1..Len(value) |->
     [id |-> value[i].Id, name |-> value[i].Name, date |-> value[i].ContentDate.Start,
      cloudCover |-> value[i].CloudCover, thumbnail |-> Some(value[i].Id)]]

\* The search answering a query without matches with 404.
SearchBodyNotFound(cq, value) ==
  IF value # None /\ Len(value[1]) > 0
  THEN [status |-> 200, ok |-> TRUE,
        body |-> Some([available |-> TRUE, imagery |-> ImageryOf(value[1]),
                       location |-> [lat |-> cq.lat, lon |-> cq.lon],
                       searchDate |-> cq.end, count |-> Len(value[1])])]
  ELSE ErrorEnvelope(404, "Search failed", "No imagery", "No imagery")

\* The 200 response testing only that searchData.value is there.
SearchBodyAnyValue(cq, value) ==
  IF value # None
  THEN [status |-> 200, ok |-> TRUE,
        body |-> Some([available |-> TRUE, imagery |-> ImageryOf(value[1]),
                       location |-> [lat |-> cq.lat, lon |-> cq.lon],
                       searchDate |-> cq.end, count |-> Len(value[1])])]
  ELSE [status |-> 200, ok |-> TRUE,
        body |-> Some([available |-> FALSE, imagery |-> <<>>,
                       location |-> [lat |-> cq.lat, lon |-> cq.lon],
                       searchDate |-> cq.end, count |-> 0])]

\* Lines 382-406: the 200 response for searchData.value = value (<<>> when
\* searchData has no value property).
SearchBody(cq, value) ==
  IF value # None /\ Len(value[1]) > 0
  THEN LET imagery == ImageryOf(value[1])
       IN [status |-> 200, ok |-> TRUE,
           body |-> Some([available |-> TRUE, imagery |-> imagery,
                          location |-> [lat |-> cq.lat, lon |-> cq.lon],
                          searchDate |-> cq.end, count |-> Len(imagery)])]
  ELSE [status |-> 200, ok |-> TRUE,
        body |-> Some([available |-> FALSE, imagery |-> <<>>,
                       location |-> [lat |-> cq.lat, lon |-> cq.lon],
                       searchDate |-> cq.end, count |-> 0])]

\* Lines 370-416: the catalog settled with resp for catalog query cq.
SearchRespond(cq, resp) ==
  IF CatalogError(resp) # None
  THEN ErrorEnvelope(500, "Search failed", CatalogError(resp)[1].message,
                     Details(CatalogError(resp)[1]))
  ELSE SearchBody(cq, Get(resp.body[1], "value"))

\* app.get('/api/satellite/search'): the response to query q when the token
\* endpoint answers token and the catalog answers catalog.
SearchHandler(q, token, catalog) ==
  IF SearchValidate(q) # None THEN SearchValidate(q)[1]
  ELSE LET tk == TokenOf(token, "Authentication failed")
       IN IF tk.threw
          THEN ErrorEnvelope(500, "Search failed", tk.thrown.message, Details(tk.thrown))
          ELSE SearchRespond(CatalogQuery(q, today), catalog)

\* What fetch(searchUrl) can do: reject (<<>>), or resolve with a response of
\* the proxy, or with one whose body is not JSON.
FetchOutcomes(q, tokens, counts) ==
  {None}
  \cup {Some(SearchHandler(q, t, c)) :
          t \in tokens, c \in CatalogOutcomes(CatalogQuery(q, today), counts)}
  \cup {Some([status |-> 502, ok |-> FALSE, body |-> None])}

\* getSatelliteImagery with its catch block rethrowing.
getSatelliteImageryRethrow(lat, lon, date, fetched) ==
  IF fetched = None THEN Throw(Some("fetch failed"))
  ELSE IF ~fetched[1].ok THEN Throw(Some(ImagerySearchFailedMsg))
  ELSE IF fetched[1].body = None THEN Throw(Some("SyntaxError"))
  ELSE Ok(fetched[1].body[1])

\* getSatelliteImagery from the settling of fetch on (lines 56-74): fetch
\* rejected, the response is not OK, or its body is not JSON: the catch block;
\* otherwise the body as it came.
getSatelliteImagery(lat, lon, date, fetched) ==
  IF fetched = None THEN Ok(ImageryFallback(lat, lon, date))
  ELSE IF ~fetched[1].ok THEN Ok(ImageryFallback(lat, lon, date))
  ELSE IF fetched[1].body = None THEN Ok(ImageryFallback(lat, lon, date))
  ELSE Ok(fetched[1].body[1])

\* ------------------------------------------------- the hook, by segments
\* sources of findLocationWithGrounding: chunks.map(c => c.web).filter(Boolean)
Sources(chunks) ==
  LET webs == SelectSeq(chunks, LAMBDA c : "web" \in DOMAIN c)
  IN [i \in 1..Len(webs) |-> [title |-> webs[i].web.title, uri |-> webs[i].web.uri]]

\* The catch block of findLocationWithGrounding.
LocationFallback(locationText) ==
  [address |-> locationText, latitude |-> FallbackLatitude,
   longitude |-> FallbackLongitude, confidence |-> FallbackConfidence,
   accuracy |-> "region"]

\* The catch block of determineTimestamp.
TimeFallback(text) ==
  [estimatedTimeOfDay |-> "unknown", confidence |-> 0, primaryMethod |-> "error",
   shadowAnalysis |-> text, reasoning |-> "Could not parse response"]

\* analyzeMediaForClues once its call resolved (line 109).
analyzeMediaForClues(text) == Ok(text)

\* findLocationWithGrounding without its catch block.
findLocationWithGroundingStrict(text, locationText, sources) ==
  LET parsed == ParseResponse(text)
  IN IF parsed = None THEN Throw(Some("SyntaxError"))
     ELSE Ok([locationData |-> parsed[1], sources |-> sources])

\* findLocationWithGrounding once the structuring call resolved with text
\* (lines 144-160).
findLocationWithGrounding(text, locationText, sources) ==
  LET parsed == ParseResponse(text)
  IN Ok([locationData |-> IF parsed = None THEN LocationFallback(locationText)
                          ELSE parsed[1],
         sources |-> sources])

\* determineTimestamp without its catch block.
determineTimestampStrict(text) ==
  LET parsed == ParseResponse(text)
  IN IF parsed = None THEN Throw(Some("SyntaxError")) ELSE Ok(parsed[1])

\* determineTimestamp once its call resolved with text (lines 232-244).
determineTimestamp(text) ==
  LET parsed == ParseResponse(text)
  IN Ok(IF parsed = None THEN TimeFallback(text) ELSE parsed[1])

\* generateVerificationReport substituting a placeholder on a parse failure.
generateVerificationReportLenient(text, sources, satelliteData) ==
  LET parsed == ParseResponse(text)
      reportData == IF parsed = None
                    THEN [verdict |-> "Inconclusive", confidenceScore |-> 0]
                    ELSE parsed[1]
  IN Ok(Merge(Spread(reportData),
              [groundingSources |-> sources, satelliteData |-> satelliteData]))

\* generateVerificationReport once its call resolved with text (lines 339-350).
generateVerificationReport(text, sources, satelliteData) ==
  LET parsed == ParseResponse(text)
  IN IF parsed = None THEN Throw(Some(InvalidFormatMsg))
     ELSE Ok(Merge(Spread(parsed[1]),
                   [groundingSources |-> sources, satelliteData |-> satelliteData]))

\* imagery.slice(0, 3).forEach(img => addLogEntry('info', ...))
RECURSIVE LogImages(_, _, _, _)
LogImages(lg, imagery, i, r) ==
  IF i > Len(imagery) \/ i > LogSliceLen THEN lg
  ELSE LogImages(addLogEntry(lg, "info", "Image from", "", r), imagery, i + 1, r)

\* useVerification.ts 80-87: phase 4 starts; determineTimestamp awaits
\* fileToBase64.
Phase4Start(r, lg, fr, resolved) ==
  Await(r, addLogEntry(lg, "processing", "PHASE 4", "", r), "p4_read", fr, resolved, <<>>)

\* useVerification.ts 70-78: the imagery result sat has arrived.
AfterImagery(r, lg, fr, sat, resolved) ==
  LET imagery == Get(sat, "imagery")
      lg1 == IF sat.available /\ imagery # None
             THEN LogImages(addLogEntry(lg, "success", "Found satellite images", "", r),
                            imagery[1], 1, r)
             ELSE addLogEntry(lg, "warning", "No recent satellite imagery", "", r)
  IN Phase4Start(r, lg1, [fr EXCEPT !.satelliteData = Some(sat)], resolved)

\* Phase 3 without the await: the search is started and phase 4 entered.
Phase3Eager(r, lg, fr, resolved) ==
  LET latitude == Get(fr.locationData[1], "latitude")
      longitude == Get(fr.locationData[1], "longitude")
      dateStr == IF fr.claimedTimestamp # <<>> THEN Some(fr.claimedTimestamp[1]) ELSE None
  IN \E back \in Lookbacks(dateStr) :
       LET q == IF TruthyNum(latitude) /\ TruthyNum(longitude)
                THEN SearchQuery(latitude[1], longitude[1], dateStr, back) ELSE None
       IN Await(r, addLogEntry(lg, "processing", "PHASE 4", "", r), "p4_read", fr,
                resolved, IF q = None THEN <<>> ELSE <<Call(r, "imagery", q)>>)

\* useVerification.ts 55-68: phase 3 is entered or skipped.
Phase3(r, lg, fr, resolved) ==
  LET latitude == Get(fr.locationData[1], "latitude")
      longitude == Get(fr.locationData[1], "longitude")
  IN IF TruthyNum(latitude) /\ TruthyNum(longitude)
     THEN LET lg1 == addLogEntry(lg, "processing", "PHASE 3", "", r)
              dateStr == IF fr.claimedTimestamp # <<>>
                         THEN Some(fr.claimedTimestamp[1]) ELSE None
          IN \E back \in Lookbacks(dateStr) :
               LET q == SearchQuery(latitude[1], longitude[1], dateStr, back)
               IN IF q = None
                  THEN AfterImagery(r, lg1, fr,
                                    ImageryFallback(latitude[1], longitude[1], dateStr),
                                    resolved)
                  ELSE Await(r, lg1, "p3_fetch", fr, resolved, <<Call(r, "imagery", q)>>)
     ELSE Phase4Start(r, lg, fr, resolved)

\* useVerification.ts 47-53: findLocationWithGrounding returned locationData.
AfterLocation(r, lg, fr, locationData, resolved) ==
  IF locationData = JNull
  THEN Catch(r, lg, Some(TypeErrorMsg), resolved)
  ELSE LET address == IF "address" \in DOMAIN locationData
                       THEN locationData.address ELSE None
           lg1 == addLogEntry(lg, "success", "Location identified",
                              IF TruthyStr(address) THEN address[1] ELSE "Unknown", r)
           lg2 == addLogEntry(lg1, "info", "Location confidence", "", r)
           lg3 == IF Len(fr.sources) > 0
                  THEN addLogEntry(lg2, "success", "Found grounding sources", "", r)
                  ELSE lg2
       IN Phase3(r, lg3, [fr EXCEPT !.locationData = Some(locationData)], resolved)

\* useVerification.ts 89-100: determineTimestamp returned timeData.
AfterTime(r, lg, fr, timeData, resolved) ==
  IF timeData = JNull
  THEN Catch(r, lg, Some(TypeErrorMsg), resolved)
  ELSE LET est == Get(timeData, "estimatedTimeOfDay")
           fr1 == [fr EXCEPT !.timeData = Some(timeData)]
           start5(l) == Await(r, addLogEntry(l, "processing", "PHASE 5", "", r),
                              "p5_read", fr1, resolved, <<>>)
       IN IF TruthyStr(est) /\ est[1] # "unknown"
          THEN LET lg1 == addLogEntry(lg, "success", "Time estimate", est[1], r)
                   lg2 == addLogEntry(lg1, "info", "Time confidence", "", r)
               IN IF Get(timeData, "reasoning") = None
                  THEN Catch(r, lg2, Some(TypeErrorMsg), resolved)
                  ELSE start5(addLogEntry(lg2, "info", "reasoning", "", r))
          ELSE start5(addLogEntry(lg, "warning", "Could not determine time", "", r))

\* useVerification.ts 110-122: generateVerificationReport returned.
AfterReport(r, lg, finalReport, resolved) ==
  LET verdict == Get(finalReport, "verdict")
      lg1 == addLogEntry(lg, "success", "Verification complete", "", r)
      lg2 == addLogEntry(lg1, "info", "Verdict",
                         IF verdict # None THEN verdict[1] ELSE "undefined", r)
  IN /\ report' = Some(finalReport)
     /\ log' = lg2
     /\ isLoading' = FALSE
     /\ pc' = [pc EXCEPT ![r] = "done"]
     /\ frame' = [frame EXCEPT ![r] = EmptyFrame]
     /\ inflight' = inflight \ resolved
     /\ UNCHANGED <<apiKeySet, today, error, proxy, credentialsSet>>

\* --------------------------------------------------------- environments
\* What the callers and the services may do: the claimedTimestamp values
\* passed in, whether the file reads, the failures and answers of the
\* completion service, and what the upstream of the proxy does.
Env ==
  [timestamps |-> ClaimedTimestamps,
   reads |-> BOOLEAN,
   failures |-> FailMsgs,
   texts |-> Texts,
   chunks |-> ChunkLists,
   locations |-> JsonTexts(LocationValues),
   times |-> JsonTexts(TimeValues),
   reports |-> JsonTexts(ReportValues),
   tokens |-> TokenOutcomes("tok"),
   counts |-> {0, 1, MaxMatches}]

Plain(v) == Some([fenced |-> FALSE, body |-> Some(v)])
CoreEnv ==
  [timestamps |-> {<<>>},
   reads |-> BOOLEAN,
   failures |-> FailMsgs,
   texts |-> {Some("prose")},
   chunks |-> {<<>>},
   locations |-> {Plain([address |-> Some("Gaza City"), latitude |-> 3152,
                         longitude |-> 3447, confidence |-> 80, accuracy |-> "city"])},
   times |-> {Plain([estimatedTimeOfDay |-> "unknown", confidence |-> 5,
                     primaryMethod |-> "other", reasoning |-> "no cues"])},
   reports |-> {Plain([verdict |-> "Verified", confidenceScore |-> 85])},
   tokens |-> {UpResp(TRUE, 200, Some([access_token |-> "tok"]))},
   counts |-> {0}]

\* ------------------------------------------------------------- actions
\* setLog([]) with the log handed on unchanged.
ResetLogKeep == log

\* setLog([]) of line 24: the log the run's own entries are appended to.
ResetLog == <<>>

\* runVerification(file, claimedTimestamp, locationContext), lines 23-42:
\* the state resets, the service is constructed (its constructor throws
\* when API_KEY is unset, outside the try block), and phase 1 is entered.
runVerification(r, claimedTimestamp) ==
  /\ pc[r] = "idle"
  /\ \A q \in Runs : q < r => pc[q] # "idle"
  /\ isLoading' = TRUE
  /\ report' = None
  /\ error' = None
  /\ IF ~apiKeySet
     THEN /\ log' = ResetLog
          /\ pc' = [pc EXCEPT ![r] = "rejected"]
          /\ UNCHANGED <<frame, inflight>>
     ELSE LET lg1 == addLogEntry(ResetLog, "info", "Starting forensic analysis", "", r)
              lg2 == addLogEntry(lg1, "info", "Known region", "", r)
              lg3 == addLogEntry(lg2, "info",
                                 IF claimedTimestamp # <<>>
                                 THEN "Mode: VERIFICATION" ELSE "Mode: DETERMINATION", "", r)
              lg4 == addLogEntry(lg3, "processing", "PHASE 1", "", r)
          IN /\ log' = lg4
             /\ pc' = [pc EXCEPT ![r] = "p1_read"]
             /\ frame' = [frame EXCEPT ![r] =
                            [EmptyFrame EXCEPT !.claimedTimestamp = claimedTimestamp]]
             /\ UNCHANGED inflight
  /\ lastSettled' = None
  /\ UNCHANGED <<apiKeySet, today, proxy, credentialsSet>>

\* An Analyze button that stays enabled while a run is loading.
handleAnalyzeAlways(E) ==
  \E r \in Runs, ts \in E.timestamps : runVerification(r, ts)

\* App.tsx: the Analyze button (disabled while isLoading) calls handleAnalyze.
handleAnalyze(E) ==
  /\ ~isLoading
  /\ \E r \in Runs, ts \in E.timestamps : runVerification(r, ts)

\* Any caller of the hook: runVerification may be called at any time.
CallRunVerification(E) ==
  \E r \in Runs, ts \in E.timestamps : runVerification(r, ts)

\* Answers as lastSettled records them.
Failed(r, kind, m) == [run |-> r, kind |-> kind, failed |-> TRUE, message |-> m]
Answered(r, kind, answer) == [run |-> r, kind |-> kind, failed |-> FALSE, answer |-> answer]

\* fileToBase64 settles (phases 1, 4 and 5 read the file first): on load the
\* phase's completion call is issued, on error the run rejects with the
\* reader's ProgressEvent, which is not an Error.
FileRead(E) ==
  \E r \in Runs, ok \in E.reads :
    /\ pc[r] \in {"p1_read", "p4_read", "p5_read"}
    /\ lastSettled' = Some([run |-> r, kind |-> "file", failed |-> ~ok])
    /\ LET kind == CASE pc[r] = "p1_read" -> "clues"
                     [] pc[r] = "p4_read" -> "timestamp"
                     [] OTHER -> "report"
           next == CASE pc[r] = "p1_read" -> "p1_call"
                     [] pc[r] = "p4_read" -> "p4_call"
                     [] OTHER -> "p5_call"
       IN IF ok THEN Await(r, log, next, frame[r], {}, <<Call(r, kind, None)>>)
          ELSE Catch(r, log, None, {})

\* A failed completion call issued again instead of aborting the run.
CallFailsRetry(E) ==
  \E r \in Runs, c \in inflight, m \in E.failures :
    /\ c.run = r /\ c.kind # "imagery"
    /\ lastSettled' = Some(Failed(r, c.kind, m))
    /\ Await(r, log, pc[r], frame[r], {c}, <<c>>)

\* A completion call of run r fails: generateContent rejects with an Error.
CallFails(E) ==
  \E r \in Runs, c \in inflight, m \in E.failures :
    /\ c.run = r /\ c.kind # "imagery"
    /\ lastSettled' = Some(Failed(r, c.kind, m))
    /\ Catch(r, log, Some(m), {c})

\* Phase 1's call resolves (analyzeMediaForClues, then lines 43-47).
CluesSettle(E) ==
  \E r \in Runs, c \in inflight, text \in E.texts :
    /\ pc[r] = "p1_call" /\ c.run = r /\ c.kind = "clues"
    /\ lastSettled' = Some(Answered(r, c.kind, text))
    /\ LET res == analyzeMediaForClues(text)
       IN IF res.threw THEN Catch(r, log, res.thrown, {c})
          ELSE IF res.value = None
          THEN Catch(r, log, Some(TypeErrorMsg), {c})
          ELSE Await(r,
                     addLogEntry(addLogEntry(log, "success", "Visual clues extracted", "", r),
                                 "processing", "PHASE 2", "", r),
                     "p2_ground", [frame[r] EXCEPT !.clues = res.value], {c},
                     <<Call(r, "grounding", None)>>)

\* The grounded call of findLocationWithGrounding resolves (lines 123-142).
GroundingSettle(E) ==
  \E r \in Runs, c \in inflight, text \in E.texts, chunks \in E.chunks :
    /\ pc[r] = "p2_ground" /\ c.run = r /\ c.kind = "grounding"
    /\ lastSettled' = Some(Answered(r, c.kind, text))
    /\ Await(r, log, "p2_struct",
             [frame[r] EXCEPT !.locationText = text, !.sources = Sources(chunks)],
             {c}, <<Call(r, "structuring", None)>>)

\* The structuring call resolves (lines 144-160, then the hook's 48-68).
\* locationText is a local of findLocationWithGrounding and goes with it.
StructuringSettle(E) ==
  \E r \in Runs, c \in inflight, text \in E.locations :
    /\ pc[r] = "p2_struct" /\ c.run = r /\ c.kind = "structuring"
    /\ lastSettled' = Some(Answered(r, c.kind, text))
    /\ LET res == findLocationWithGrounding(text, frame[r].locationText, frame[r].sources)
           fr == [frame[r] EXCEPT !.locationText = None]
       IN IF res.threw THEN Catch(r, log, res.thrown, {c})
          ELSE AfterLocation(r, log, [fr EXCEPT !.sources = res.value.sources],
                             res.value.locationData, {c})

\* fetch(searchUrl) settles (getSatelliteImagery 56-74, then the hook's 70-87).
ImagerySettle(E) ==
  \E r \in Runs, c \in inflight :
    /\ pc[r] = "p3_fetch" /\ c.run = r /\ c.kind = "imagery"
    /\ \E fetched \in FetchOutcomes(c.arg[1], E.tokens, E.counts) :
         LET fr == frame[r]
             dateStr == IF fr.claimedTimestamp # <<>>
                        THEN Some(fr.claimedTimestamp[1]) ELSE None
             res == getSatelliteImagery(fr.locationData[1].latitude,
                                        fr.locationData[1].longitude, dateStr, fetched)
         IN /\ lastSettled' = Some(Answered(r, c.kind, fetched))
            /\ IF res.threw THEN Catch(r, log, res.thrown, {c})
               ELSE AfterImagery(r, log, fr, res.value, {c})

\* Phase 4's call resolves (determineTimestamp 232-244, then the hook's 89-100).
TimestampSettle(E) ==
  \E r \in Runs, c \in inflight, text \in E.times :
    /\ pc[r] = "p4_call" /\ c.run = r /\ c.kind = "timestamp"
    /\ lastSettled' = Some(Answered(r, c.kind, text))
    /\ LET res == determineTimestamp(text)
       IN IF res.threw THEN Catch(r, log, res.thrown, {c})
          ELSE AfterTime(r, log, frame[r], res.value, {c})

\* Phase 5's call resolves (generateVerificationReport 339-350, then 110-122).
ReportSettle(E) ==
  \E r \in Runs, c \in inflight, text \in E.reports :
    /\ pc[r] = "p5_call" /\ c.run = r /\ c.kind = "report"
    /\ lastSettled' = Some(Answered(r, c.kind, text))
    /\ LET res == generateVerificationReport(text, frame[r].sources,
                                             frame[r].satelliteData)
       IN IF res.threw THEN Catch(r, log, res.thrown, {c})
          ELSE AfterReport(r, log, res.value, {c})

\* The date changes.
Tick ==
  /\ today < Day0 + MaxTicks
  /\ today' = today + 1
  /\ lastSettled' = None
  /\ UNCHANGED <<apiKeySet, isLoading, log, report, error, pc, frame, inflight, proxy,
               credentialsSet>>

Settle(E) ==
  \/ FileRead(E)
  \/ CallFails(E)
  \/ CluesSettle(E)
  \/ GroundingSettle(E)
  \/ StructuringSettle(E)
  \/ ImagerySettle(E)
  \/ TimestampSettle(E)
  \/ ReportSettle(E)
  \/ Tick

\* The application: runs are started by the Analyze button, and the services
\* may answer anything in Env.
Next == handleAnalyze(Env) \/ Settle(Env)
Spec == Init /\ [][Next]_vars

\* The hook under any caller: runs may overlap.  One answer of each sort
\* per call (CoreEnv) keeps the interleavings of two runs explorable.
HookNext == CallRunVerification(CoreEnv) \/ Settle(CoreEnv)
HookSpec == Init /\ [][HookNext]_vars

\* ------------------------------------------------- the proxy, by segments
\* The proxy's three handlers are async functions too: one action per
\* segment between awaits.  proxy[i].pc: idle, sent (the request is on its
\* way), token (awaiting the token fetch), catalog (awaiting the catalog or
\* thumbnail fetch), responded, returned (getSatelliteImagery has returned).
ReqIds == 1..MaxRequests

\* Arguments getSatelliteImagery is called with.
ClientArgs ==
  { [lat |-> 0, lon |-> 0, date |-> Some(Day0 - 10)],
    [lat |-> 0 - 9000, lon |-> 18000, date |-> None] }

\* Search queries of other HTTP clients.
RawQueries ==
  { [lat |-> None, lon |-> Some(FallbackLongitude)],
    [lat |-> Some(FallbackLatitude), lon |-> None, limit |-> 2],
    [lat |-> Some(FallbackLatitude), lon |-> Some(FallbackLongitude)] }

\* What the thumbnail endpoint of the catalog can do.
ThumbnailOutcomes ==
  { UpFail(Err("fetch failed", "", "EAI_AGAIN")),
    UpResp(FALSE, 404, None),
    UpResp(TRUE, 200, None) @@ [contentType |-> "image/jpeg"],
    UpResp(TRUE, 200, Some([image |-> "jpeg"])) @@ [contentType |-> "image/jpeg"],
    UpResp(TRUE, 200, Some([image |-> "png"])) @@ [contentType |-> ""] }

\* What the token endpoint does with the client_credentials grant the proxy
\* posts (lines 290-303, 336-349, 425-438): unset credentials are posted
\* as they are and never granted a token.
TokenEndpoint(tok, configured) ==
  IF configured THEN TokenOutcomes(tok)
  ELSE {o \in TokenOutcomes(tok) : o.rejected \/ ~o.ok}

\* The token the token endpoint grants to the token fetch of request i.
Token(i) == [fetch |-> i]
\* An upstream call as proxy[i].calls records it.
UpCall(endpoint, bearer, query) ==
  [endpoint |-> endpoint, bearer |-> bearer, query |-> query]

\* A bearer token kept across requests: the first one any request obtained.
BearerTokenShared(i, fetched) ==
  IF \E j \in ReqIds : j # i /\ proxy[j].token # None /\ proxy[j].token[1] # None
  THEN proxy[CHOOSE j \in ReqIds : j # i /\ proxy[j].token # None
                                         /\ proxy[j].token[1] # None].token[1]
  ELSE fetched

\* const token = authData.access_token (lines 356, 445): local to the handler.
BearerToken(i, fetched) == fetched

\* res.json / res.status().json: the handler of request i ends.
Respond(i, rq, res) ==
  /\ proxy' = [proxy EXCEPT ![i] = [rq EXCEPT !.pc = "responded", !.response = Some(res)]]
  /\ UNCHANGED <<hookVars, credentialsSet>>

\* The handler of request i awaits an upstream fetch.
Fetch(i, rq, p, call) ==
  /\ proxy' = [proxy EXCEPT ![i] = [rq EXCEPT !.pc = p, !.calls = Append(@, call)]]
  /\ UNCHANGED <<hookVars, credentialsSet>>

\* getSatelliteImagery(lat, lon, date), lines 42-56: the search request is sent.
ClientSearch ==
  \E i \in ReqIds, a \in ClientArgs : \E back \in Lookbacks(a.date) :
    /\ proxy[i].pc = "idle"
    /\ \A j \in ReqIds : j < i => proxy[j].pc # "idle"
    /\ SearchQuery(a.lat, a.lon, a.date, back) # None
    /\ proxy' = [proxy EXCEPT ![i] =
                   [NoRequest EXCEPT !.op = "search", !.pc = "sent", !.client = Some(a),
                                     !.q = SearchQuery(a.lat, a.lon, a.date, back)]]
    /\ UNCHANGED <<hookVars, credentialsSet>>

\* Another HTTP client sends a request to one of the three endpoints.
HttpRequest ==
  \E i \in ReqIds, op \in {"auth", "search", "thumbnail"} :
    /\ proxy[i].pc = "idle"
    /\ \A j \in ReqIds : j < i => proxy[j].pc # "idle"
    /\ \E q \in IF op = "search" THEN {Some(rq) : rq \in RawQueries} ELSE {None} :
         proxy' = [proxy EXCEPT ![i] = [NoRequest EXCEPT !.op = op, !.pc = "sent", !.q = q]]
    /\ UNCHANGED <<hookVars, credentialsSet>>

\* The handler starts (lines 289, 326-349, 422-438): the search validates its
\* parameters; each handler then fetches a token.
Receive ==
  \E i \in ReqIds :
    /\ proxy[i].pc = "sent"
    /\ IF proxy[i].op = "search" /\ SearchValidate(proxy[i].q[1]) # None
       THEN Respond(i, proxy[i], SearchValidate(proxy[i].q[1])[1])
       ELSE Fetch(i, proxy[i], "token", UpCall("token", None, None))

\* The request of getSatelliteImagery fails in transport: fetch rejects.
TransportFails ==
  \E i \in ReqIds :
    /\ proxy[i].pc = "sent" /\ proxy[i].client # None
    /\ LET a == proxy[i].client[1]
       IN proxy' = [proxy EXCEPT ![i] =
                      [@ EXCEPT !.pc = "returned",
                                !.result = Some(getSatelliteImagery(a.lat, a.lon, a.date,
                                                                    None).value)]]
    /\ UNCHANGED <<hookVars, credentialsSet>>

\* The error kind of each handler's 500 envelope.
ErrorKind(op) ==
  CASE op = "auth" -> "Authentication failed"
    [] op = "search" -> "Search failed"
    [] OTHER -> "Thumbnail fetch failed"

\* The token fetch of request i settles (auth 304-320; search 351-378;
\* thumbnail 440-458).
TokenSettles ==
  \E i \in ReqIds :
    /\ proxy[i].pc = "token"
    /\ \E resp \in TokenEndpoint(Token(i), credentialsSet) :
         LET rq == proxy[i]
             tk == TokenOf(resp, IF rq.op = "auth" THEN "Authentication failed: 401"
                                 ELSE "Authentication failed")
         IN IF tk.threw
            THEN Respond(i, [rq EXCEPT !.thrown = Some(tk.thrown)],
                         ErrorEnvelope(500, ErrorKind(rq.op), tk.thrown.message,
                                       IF rq.op = "auth" THEN AuthDetails(tk.thrown)
                                       ELSE Details(tk.thrown)))
            ELSE IF rq.op = "auth"
            THEN Respond(i, rq, [status |-> 200, ok |-> TRUE,
                                 body |-> Some(IF tk.value = None THEN <<>>
                                               ELSE [access_token |-> tk.value[1]])])
            ELSE Fetch(i, [rq EXCEPT !.token = Some(tk.value)], "catalog",
                       IF rq.op = "search"
                       THEN UpCall("catalog", BearerToken(i, tk.value),
                                   Some(CatalogQuery(rq.q[1], today)))
                       ELSE UpCall("thumbnail", BearerToken(i, tk.value), None))

\* The catalog fetch of search request i settles (lines 370-416).
CatalogSettles ==
  \E i \in ReqIds :
    /\ proxy[i].pc = "catalog" /\ proxy[i].op = "search"
    /\ LET cq == proxy[i].calls[2].query[1]
       IN \E resp \in CatalogOutcomes(cq, {0, MaxMatches}) :
            Respond(i, [proxy[i] EXCEPT !.catalog = Some(resp),
                                        !.thrown = CatalogError(resp)],
                    SearchRespond(cq, resp))

\* The thumbnail fetch of request i settles (lines 450-475).
ThumbnailSettles ==
  \E i \in ReqIds :
    /\ proxy[i].pc = "catalog" /\ proxy[i].op = "thumbnail"
    /\ \E resp \in ThumbnailOutcomes :
         Respond(i, [proxy[i] EXCEPT !.thumbnail = Some(resp),
                                     !.thrown = ThumbnailError(resp)],
                 ThumbnailRespond(resp))

\* The proxy's response reaches getSatelliteImagery (lines 58-74).
ClientReceives ==
  \E i \in ReqIds :
    /\ proxy[i].pc = "responded" /\ proxy[i].client # None
    /\ LET a == proxy[i].client[1]
       IN proxy' = [proxy EXCEPT ![i] =
                      [@ EXCEPT !.pc = "returned",
                                !.result = Some(getSatelliteImagery(a.lat, a.lon, a.date,
                                                                    proxy[i].response).value)]]
    /\ UNCHANGED <<hookVars, credentialsSet>>

\* The proxy server with the imagery client and other HTTP clients calling it.
ProxyNext ==
  \/ ClientSearch
  \/ HttpRequest
  \/ Receive
  \/ TransportFails
  \/ TokenSettles
  \/ CatalogSettles
  \/ ThumbnailSettles
  \/ ClientReceives
\* The hook is not running; process.env.API_KEY is set.
ProxyInit ==
  /\ HookInit /\ apiKeySet = TRUE
  /\ proxy = [i \in 1..MaxRequests |-> NoRequest]
  /\ credentialsSet \in BOOLEAN
ProxySpec == ProxyInit /\ [][ProxyNext]_vars

\* ------------------------------------------------- repeated search requests
\* Search queries a client repeats: with all five parameters, and with lat
\* and lon only (the proxy then takes the window from its clock).
RepeatedQueries ==
  { [lat |-> Some(FallbackLatitude), lon |-> Some(FallbackLongitude),
     startDate |-> Day0 - LookbackDays, endDate |-> Day0, limit |-> LogSliceLen],
    [lat |-> Some(FallbackLatitude), lon |-> Some(FallbackLongitude)] }

\* A client sends a search with one of the repeated queries, or a thumbnail
\* request.
RepeatedRequest ==
  \E i \in ReqIds :
    /\ proxy[i].pc = "idle"
    /\ \A j \in ReqIds : j < i => proxy[j].pc # "idle"
    /\ \/ \E q \in RepeatedQueries :
            proxy' = [proxy EXCEPT ![i] =
                        [NoRequest EXCEPT !.op = "search", !.pc = "sent", !.q = Some(q)]]
       \/ proxy' = [proxy EXCEPT ![i] = [NoRequest EXCEPT !.op = "thumbnail", !.pc = "sent"]]
    /\ UNCHANGED <<hookVars, credentialsSet>>

\* The exchange of request i is over: the handler keeps nothing of it.
Close ==
  \E i \in ReqIds :
    /\ proxy[i].pc = "responded"
    /\ proxy' = [proxy EXCEPT ![i] = NoRequest]
    /\ UNCHANGED <<hookVars, credentialsSet>>

\* The proxy serving repeated searches while other requests come and go
\* and the date changes.
RepeatNext ==
  \/ RepeatedRequest
  \/ Receive
  \/ TokenSettles
  \/ CatalogSettles
  \/ ThumbnailSettles
  \/ Close
  \/ Tick
RepeatInit == ProxyInit /\ credentialsSet = TRUE
RepeatSpec == RepeatInit /\ [][RepeatNext]_vars

\* ---------------------------------------------------------------- claims
Last(q) == q[Len(q)]
Finished == {"done", "rejected"}
\* Run r is the latest run started.
Latest(r) == pc[r] # "idle" /\ \A q \in Runs : q > r => pc[q] = "idle"
\* A later run than r has been started.
Stale(r) == \E q \in Runs : q > r /\ pc[q] # "idle"
\* The step into this state consumed the answer of run r's call of this kind.
Resolved(r, kind) ==
  /\ lastSettled # None
  /\ lastSettled[1].run = r
  /\ lastSettled[1].kind = kind
  /\ ~lastSettled[1].failed
Unparseable(r, kind) == Resolved(r, kind) /\ ParseResponse(lastSettled[1].answer) = None
ErrorEntry(m, r) == Entry("error", "Verification failed", m, r)
ErrorEntries == {i \in DOMAIN log : log[i].type = "error"}
WellFormedReport(rep) ==
  /\ "verdict" \in DOMAIN rep /\ rep.verdict \in Verdict
  /\ "confidenceScore" \in DOMAIN rep /\ rep.confidenceScore \in 0..100

\* C1: a run that has finished leaves either a report whose verdict is one
\* of Verified, Disputed, Inconclusive and whose confidenceScore is in
\* [0,100], or an error with a non-empty message; never both absent.
C1_FinishedRunIsWellFormed ==
  \A r \in Runs :
    (pc[r] = "done" /\ Latest(r)) =>
      \/ report # None /\ WellFormedReport(report[1])
      \/ report = None /\ error # None /\ error[1] # ""

\* C2: when the phase-5 call returns text that does not parse as JSON, the
\* run fails: error holds the invalid-format message, the log ends with an
\* 'error' entry carrying it, and no report is set.
C2_ReportParseFailureIsFatal ==
  \A r \in Runs :
    Unparseable(r, "report") =>
      /\ pc[r] = "done"
      /\ error = Some(InvalidFormatMsg)
      /\ log # <<>> /\ Last(log) = ErrorEntry(InvalidFormatMsg, r)
      /\ report = None

C2_Witness ==
  \E r \in Runs :
    /\ Unparseable(r, "report")
    /\ error = Some(InvalidFormatMsg)
    /\ lastSettled[1].answer # None

\* C3: when the structuring call returns text that does not parse as JSON,
\* locationData becomes the fallback (accuracy 'region', confidence 30, the
\* phase-2 free text as address), the sources collected are kept, and the
\* run goes on to the next phase instead of aborting.
C3_StructuringParseFailureFallsBack ==
  [][\A r \in Runs :
       (pc[r] = "p2_struct" /\ Unparseable(r, "structuring")') =>
         /\ pc'[r] \in {"p3_fetch", "p4_read"}
         /\ frame'[r].locationData # None
         /\ frame'[r].locationData[1].accuracy = "region"
         /\ frame'[r].locationData[1].confidence = 30
         /\ frame'[r].locationData[1].address = frame[r].locationText
         /\ frame'[r].sources = frame[r].sources
         /\ error' = None /\ isLoading' /\ ErrorEntries' = {}]_vars

C3_Witness ==
  \E r \in Runs :
    /\ Unparseable(r, "structuring")
    /\ pc[r] = "p3_fetch"
    /\ frame[r].locationData[1].accuracy = "region"
    /\ Len(frame[r].sources) > 0

\* C4: when the phase-4 call returns text that does not parse as JSON,
\* timeData is the fallback (primaryMethod 'error', confidence 0,
\* estimatedTimeOfDay 'unknown'), nothing is raised and phase 5 is entered.
C4_TimestampParseFailureFallsBack ==
  \A r \in Runs :
    Unparseable(r, "timestamp") =>
      /\ pc[r] = "p5_read"
      /\ frame[r].timeData # None
      /\ frame[r].timeData[1].primaryMethod = "error"
      /\ frame[r].timeData[1].confidence = 0
      /\ frame[r].timeData[1].estimatedTimeOfDay = "unknown"
      /\ error = None /\ isLoading /\ ErrorEntries = {}
      /\ Last(log) = Entry("processing", "PHASE 5", "", r)

C4_Witness ==
  \E r \in Runs :
    /\ Unparseable(r, "timestamp")
    /\ pc[r] = "p5_read"
    /\ frame[r].timeData[1].primaryMethod = "error"

\* C5: whatever the imagery search does (proxy unreachable, an error
\* envelope, zero matches, matches), phase 3 never aborts the run: once
\* phase 3 has been entered the run is waiting for the search or phase 4
\* has been started after it, with no 'error' entry in between.
C5_ImageryNeverAborts ==
  /\ \A r \in Runs :
       (lastSettled # None /\ lastSettled[1].run = r /\ lastSettled[1].kind = "imagery") =>
         /\ pc[r] = "p4_read"
         /\ error = None /\ isLoading /\ ErrorEntries = {}
         /\ Last(log) = Entry("processing", "PHASE 4", "", r)
  /\ \A i \in DOMAIN log :
       log[i].text = "PHASE 3" =>
         \/ pc[log[i].run] = "p3_fetch" /\ \A k \in i..Len(log) : log[k].type # "error"
         \/ \E j \in i..Len(log) :
              /\ log[j] = Entry("processing", "PHASE 4", "", log[i].run)
              /\ \A k \in i..j : log[k].type # "error"

C5_Witness ==
  \E r \in Runs :
    /\ Resolved(r, "imagery")
    /\ lastSettled[1].answer # None
    /\ lastSettled[1].answer[1].status = 500
    /\ pc[r] = "p4_read"

\* The arguments run r calls getSatelliteImagery with.
ImageryArgs(r) ==
  [lat |-> frame[r].locationData[1].latitude,
   lon |-> frame[r].locationData[1].longitude,
   date |-> IF frame[r].claimedTimestamp # <<>>
            THEN Some(frame[r].claimedTimestamp[1]) ELSE None]
\* The search of run r failed: in transport, with a non-OK response, or
\* before the request was sent.
ImageryFailed(r) ==
  \/ /\ Resolved(r, "imagery")
     /\ \/ lastSettled[1].answer = None
        \/ ~lastSettled[1].answer[1].ok
  \/ /\ Resolved(r, "structuring")
     /\ pc[r] = "p4_read"
     /\ frame[r].satelliteData # None

\* C6: getSatelliteImagery never raises: on a transport failure, a non-OK
\* response or a failure while computing the request it resolves with
\* available = false, the lat/lon it was called with and the date it was
\* given (today's date when none was given).
C6_ImageryFallbackOnFailure ==
  \A r \in Runs :
    ImageryFailed(r) =>
      /\ pc[r] = "p4_read" /\ error = None
      /\ frame[r].satelliteData # None
      /\ LET sat == frame[r].satelliteData[1]
             args == ImageryArgs(r)
         IN /\ sat.available = FALSE
            /\ sat.location = [lat |-> args.lat, lon |-> args.lon]
            /\ sat.searchDate = IF args.date # None THEN args.date[1] ELSE today

C6_Witness ==
  \E r \in Runs :
    /\ Resolved(r, "imagery")
    /\ lastSettled[1].answer = None
    /\ frame[r].claimedTimestamp # <<>>
    /\ frame[r].satelliteData # None
    /\ frame[r].satelliteData[1].available = FALSE

\* C7: every invocation of runVerification ends with isLoading false and a
\* terminal entry ('success' completion or 'error') of that invocation in
\* the log, whatever its steps did, construction of the client included.
TerminalEntry(e, r) ==
  /\ e.run = r
  /\ \/ e.type = "error"
     \/ e.type = "success" /\ e.text = "Verification complete"
C7_FinishedRunIsTerminated ==
  \A r \in Runs :
    (pc[r] \in Finished /\ Latest(r)) =>
      /\ ~isLoading
      /\ \E i \in DOMAIN log : TerminalEntry(log[i], r)

\* C8: when a completion call of phase 1, 2, 4 or 5 fails, the run aborts
\* there: it starts no further call and does not retry, exactly one 'error'
\* entry carrying the failure message is in the log and is its last entry,
\* error holds the message and report stays null.
C8_FailedCallAbortsRun ==
  \A r \in Runs :
    (lastSettled # None /\ lastSettled[1].run = r /\ lastSettled[1].failed
       /\ lastSettled[1].kind \in {"clues", "grounding", "structuring", "timestamp", "report"}) =>
      /\ pc[r] = "done"
      /\ {c \in inflight : c.run = r} = {}
      /\ error = Some(lastSettled[1].message)
      /\ log # <<>> /\ Last(log) = ErrorEntry(lastSettled[1].message, r)
      /\ Cardinality(ErrorEntries) = 1
      /\ report = None
      /\ ~isLoading

C8_Witness ==
  \E r \in Runs :
    /\ lastSettled # None /\ lastSettled[1].run = r /\ lastSettled[1].failed
    /\ lastSettled[1].kind = "timestamp"
    /\ pc[r] = "done"
    /\ error # None

\* C9: the external calls of a run start in the order clues, grounding,
\* structuring, imagery (when phase 3 executes), timestamp, report; a call is
\* started only when the one before it has settled, so a run has at most
\* one call outstanding, and it is the last one it started.
CallOrder == <<"clues", "grounding", "structuring", "imagery", "timestamp", "report">>
CallOrderNoImagery == <<"clues", "grounding", "structuring", "timestamp", "report">>
IsPrefix(p, q) == Len(p) <= Len(q) /\ \A i \in 1..Len(p) : p[i] = q[i]
C9_CallsAreSequential ==
  \A r \in Runs :
    LET out == {c \in inflight : c.run = r}
        started == frame[r].issued
    IN /\ IsPrefix(started, CallOrder) \/ IsPrefix(started, CallOrderNoImagery)
       /\ Cardinality(out) <= 1
       /\ \A c \in out : started # <<>> /\ c.kind = Last(started)

C9_Witness ==
  \E r \in Runs :
    /\ frame[r].issued = CallOrder
    /\ {c.kind : c \in {d \in inflight : d.run = r}} = {"report"}

\* C10: once a second run has started while a first is pending, nothing the
\* first run does changes the hook's report, error or log.
C10_StaleRunIsDiscarded ==
  [][\A r \in Runs :
       (Stale(r) /\ pc'[r] # pc[r]) =>
         /\ report' = report
         /\ error' = error
         /\ log' = log]_vars

\* The entries runVerification writes before its first await.
StartEntries(r) ==
  {<<Entry("info", "Starting forensic analysis", "", r),
     Entry("info", "Known region", "", r),
     Entry("info", m, "", r),
     Entry("processing", "PHASE 1", "", r)>> :
     m \in {"Mode: VERIFICATION", "Mode: DETERMINATION"}}

\* C11: starting a run resets the session state before any phase executes:
\* right after runVerification begins, report is null, error is null,
\* isLoading is true and the log holds nothing of what came before (it was
\* emptied, and holds at most the new run's own opening entries), whatever
\* the previous run left behind.
C11_StartResetsState ==
  [][\A r \in Runs :
       (pc[r] = "idle" /\ pc'[r] # "idle") =>
         /\ report' = None
         /\ error' = None
         /\ isLoading'
         /\ log' = <<>> \/ log' \in StartEntries(r)]_vars

C11_Witness ==
  \E r \in Runs :
    /\ r > 1 /\ pc[r - 1] = "done"
    /\ pc[r] = "p1_read"
    /\ log \in StartEntries(r)
    /\ report = None /\ error = None /\ isLoading

\* Phase 3 was executed in run r: the search is outstanding or has returned.
Phase3Executed(r) == pc[r] = "p3_fetch" \/ frame[r].satelliteData # None

\* C12: phase 3 (the imagery search) is executed in a run if and only if
\* phase 2 produced a location whose latitude and longitude are both
\* present, for every coordinate value, latitude 0 or longitude 0 included.
C12_Phase3IffCoordinates ==
  \A r \in Runs :
    (Resolved(r, "structuring") /\ frame[r].locationData # None) =>
      (Phase3Executed(r) <=>
         /\ Get(frame[r].locationData[1], "latitude") # None
         /\ Get(frame[r].locationData[1], "longitude") # None)

\* The handler of request i has run (at least its first segment).
Handled(i) ==
  \/ proxy[i].pc \in {"token", "catalog", "responded"}
  \/ proxy[i].pc = "returned" /\ proxy[i].response # None

\* C13: a proxy search request in which lat or lon is missing is answered
\* with HTTP 400 and error kind 'Missing required parameters', and neither
\* the token endpoint nor the catalog is called for that request.
C13_MissingParamsRejected ==
  \A i \in ReqIds :
    (/\ Handled(i) /\ proxy[i].op = "search"
     /\ proxy[i].q[1].lat = None \/ proxy[i].q[1].lon = None) =>
      /\ proxy[i].pc = "responded"
      /\ proxy[i].response[1].status = 400
      /\ proxy[i].response[1].body[1].error = "Missing required parameters"
      /\ proxy[i].calls = <<>>

C13_Witness ==
  \E i \in ReqIds :
    /\ proxy[i].op = "search" /\ proxy[i].pc = "responded"
    /\ proxy[i].q[1].lat # None /\ proxy[i].q[1].lon = None
    /\ proxy[i].response[1].status = 400

\* C14: every 4xx/5xx response of the proxy's auth, search and thumbnail
\* handlers carries all three envelope fields: error, message and details.
C14_ErrorEnvelopeComplete ==
  \A i \in ReqIds :
    (proxy[i].response # None /\ proxy[i].response[1].status >= 400) =>
      /\ proxy[i].response[1].body # None
      /\ {"error", "message", "details"} \subseteq DOMAIN proxy[i].response[1].body[1]

\* The failure is a DNS/connectivity error: EAI_AGAIN on it or on its cause.
Unreachable(e) == e.code = "EAI_AGAIN" \/ e.causeCode = "EAI_AGAIN"

\* C15: in the 500 envelope of each of the three proxy operations (auth,
\* search, thumbnail), details is the network-unreachable hint whenever the
\* underlying failure is a DNS/connectivity error (code EAI_AGAIN on the
\* error or on its cause), and otherwise details equals message.
C15_DetailsFollowFailure ==
  \A i \in ReqIds :
    (proxy[i].response # None /\ proxy[i].response[1].status = 500) =>
      /\ proxy[i].thrown # None
      /\ proxy[i].response[1].body[1].details =
           IF Unreachable(proxy[i].thrown[1]) THEN NetworkHint
           ELSE proxy[i].response[1].body[1].message

\* Request i is a search or thumbnail request that passed validation.
Forwarded(i) ==
  /\ Handled(i)
  /\ \/ proxy[i].op = "thumbnail"
     \/ proxy[i].op = "search" /\ proxy[i].q[1].lat # None /\ proxy[i].q[1].lon # None

\* C16: every search or thumbnail request that passes validation performs
\* exactly one token fetch of its own, before its catalog call; the catalog
\* call is made only after that token fetch succeeded, with the token of
\* that fetch, and a token obtained for one request is never used by
\* another request.
C16_FreshTokenPerRequest ==
  \A i \in ReqIds :
    Forwarded(i) =>
      LET calls == proxy[i].calls
      IN /\ Len(calls) \in {1, 2}
         /\ calls[1] = UpCall("token", None, None)
         /\ Len(calls) = 1 <=> proxy[i].token = None
         /\ proxy[i].pc = "catalog" => Len(calls) = 2
         /\ Len(calls) = 2 =>
              /\ calls[2].endpoint = (IF proxy[i].op = "search" THEN "catalog" ELSE "thumbnail")
              /\ calls[2].bearer = proxy[i].token[1]
              /\ calls[2].bearer # None => calls[2].bearer[1] = Token(i)
              /\ \A j \in ReqIds :
                   (j # i /\ Len(proxy[j].calls) = 2 /\ calls[2].bearer # None) =>
                     proxy[j].calls[2].bearer # calls[2].bearer

C16_Witness ==
  \E i, j \in ReqIds :
    /\ i # j
    /\ proxy[i].op = "search" /\ proxy[j].op = "thumbnail"
    /\ proxy[i].pc = "catalog" /\ proxy[j].pc = "catalog"
    /\ proxy[i].calls[2].bearer = Some(Token(i))
    /\ proxy[j].calls[2].bearer = Some(Token(j))

\* The catalog answered search request i with these products (<<>>: the
\* answer had no value property or no entries).
CatalogValue(i) ==
  LET resp == proxy[i].catalog[1]
  IN IF "value" \in DOMAIN resp.body[1] THEN resp.body[1].value ELSE <<>>
\* Search request i was answered with 200.
Search200(i) ==
  proxy[i].op = "search" /\ proxy[i].response # None /\ proxy[i].response[1].status = 200

\* C17: in every 200 response of the proxy search, count equals the number
\* of imagery entries and available is true exactly when count > 0; an
\* upstream query with zero matches yields a 200 response with
\* available=false, imagery=[] and count=0, not an error.
C17_CountMatchesImagery ==
  \A i \in ReqIds :
    /\ Search200(i) =>
         LET body == proxy[i].response[1].body[1]
         IN /\ body.count = Len(body.imagery)
            /\ body.available <=> body.count > 0
    /\ (/\ proxy[i].catalog # None
        /\ CatalogError(proxy[i].catalog[1]) = None
        /\ CatalogValue(i) = <<>>) =>
         /\ Search200(i)
         /\ proxy[i].response[1].body[1].available = FALSE
         /\ proxy[i].response[1].body[1].imagery = <<>>
         /\ proxy[i].response[1].body[1].count = 0

C17_Witness ==
  \E i, j \in ReqIds :
    /\ Search200(i) /\ CatalogValue(i) = <<>>
    /\ "value" \in DOMAIN proxy[i].catalog[1].body[1]
    /\ proxy[i].response[1].body[1].count = 0
    /\ Search200(j) /\ proxy[j].response[1].body[1].count = SearchLimit

\* The SatelliteResults the pipeline holds.
SatelliteResults == {frame[r].satelliteData[1] : r \in {x \in Runs : frame[x].satelliteData # None}}

\* C18 as stated: every SatelliteResult that reaches the pipeline has the
\* imagery field present if and only if available is true.
C18_ImageryPresentIffAvailable ==
  \A sat \in SatelliteResults : "imagery" \in DOMAIN sat <=> sat.available

\* C18, amended: every SatelliteResult that reaches the pipeline, whether a
\* proxy search response passed through by getSatelliteImagery or the
\* client's own error fallback, has available true if and only if its
\* imagery field is present and non-empty; with available false the field
\* is absent (the fallback) or the empty list (a search without matches).
C18_ImageryNonEmptyIffAvailable ==
  \A sat \in SatelliteResults :
    /\ sat.available \in BOOLEAN
    /\ sat.available <=> ("imagery" \in DOMAIN sat /\ Len(sat.imagery) > 0)

C18_Witness ==
  \E r \in Runs :
    /\ Resolved(r, "imagery")
    /\ frame[r].satelliteData # None
    /\ frame[r].satelliteData[1].available = FALSE
    /\ "imagery" \in DOMAIN frame[r].satelliteData[1]
    /\ frame[r].satelliteData[1].imagery = <<>>

\* getSatelliteImagery has returned for request i.
Returned(i) == proxy[i].client # None /\ proxy[i].result # None
\* The entries of imagery are in non-increasing capture-time order.
NonIncreasing(imagery) ==
  \A k \in 1..(Len(imagery) - 1) : imagery[k].date >= imagery[k + 1].date

\* C19: for every lat in [-90,90] and lon in [-180,180], getSatelliteImagery
\* returns a result whose available is a boolean and, when available is
\* true, whose imagery has at most limit (5) entries in non-increasing
\* capture-time order: the client requests limit=5, the proxy forwards the
\* limit and a descending order to the catalog, and neither the proxy nor
\* the client adds, drops or reorders entries.
C19_ImageryBoundedAndOrdered ==
  \A i \in ReqIds :
    /\ proxy[i].client # None =>
         /\ proxy[i].client[1].lat \in (0 - 9000)..9000
         /\ proxy[i].client[1].lon \in (0 - 18000)..18000
         /\ proxy[i].q[1].limit = SearchLimit
         /\ \A k \in DOMAIN proxy[i].calls :
              proxy[i].calls[k].endpoint = "catalog" =>
                /\ proxy[i].calls[k].query[1].top = SearchLimit
                /\ proxy[i].calls[k].query[1].orderby = "ContentDate/Start desc"
    /\ Returned(i) =>
         LET res == proxy[i].result[1]
         IN /\ res.available \in BOOLEAN
            /\ res.available =>
                 /\ Len(res.imagery) <= SearchLimit
                 /\ NonIncreasing(res.imagery)
                 /\ res.imagery = ImageryOf(CatalogValue(i))

C19_Witness ==
  \E i \in ReqIds :
    /\ Returned(i)
    /\ proxy[i].client[1].lat = 0 /\ proxy[i].client[1].lon = 0
    /\ proxy[i].result[1].available
    /\ Len(proxy[i].result[1].imagery) = SearchLimit

\* A coordinate pair in valid geographic range (hundredths of a degree).
InRange(lat, lon) == lat \in (0 - 9000)..9000 /\ lon \in (0 - 18000)..18000

\* C20: the location produced by phase 2 is never absent and always has
\* latitude in [-90,90] and longitude in [-180,180], for every JSON value
\* the structuring call can return; consequently every call the pipeline
\* makes to getSatelliteImagery passes in-range coordinates.
C20_LocationInRange ==
  /\ \A r \in Runs :
       Resolved(r, "structuring") =>
         /\ frame[r].locationData # None
         /\ Get(frame[r].locationData[1], "latitude") # None
         /\ Get(frame[r].locationData[1], "longitude") # None
         /\ InRange(frame[r].locationData[1].latitude, frame[r].locationData[1].longitude)
  /\ \A c \in inflight :
       c.kind = "imagery" => InRange(c.arg[1].lat[1], c.arg[1].lon[1])

\* Request i is one that needs a token: auth, thumbnail, or a valid search.
NeedsToken(i) == Handled(i) /\ (proxy[i].op = "auth" \/ Forwarded(i))

\* C21: when the upstream client id or secret is not configured, a proxy
\* operation that needs a token fails at once with a configuration error
\* (AuthConfigurationError), sends no token request upstream and reports no
\* generic authentication or search failure.
C21_MissingCredentialsFailFast ==
  \A i \in ReqIds :
    (~credentialsSet /\ NeedsToken(i)) =>
      /\ proxy[i].calls = <<>>
      /\ proxy[i].response # None
      /\ proxy[i].response[1].body[1].error = "AuthConfigurationError"

\* The archive sizes under which the catalog gives the answer search request
\* i received to the query request i sent.
ArchiveOf(i) ==
  {n \in 0..MaxMatches :
     proxy[i].catalog[1].body[1] = [value |-> CatalogAnswer(proxy[i].calls[2].query[1], n)]}
\* Requests i and j were answered from the same, unchanged catalog.
SameCatalog(i, j) ==
  \/ ArchiveOf(i) \cap ArchiveOf(j) # {}
  \/ /\ "value" \notin DOMAIN proxy[i].catalog[1].body[1]
     /\ "value" \notin DOMAIN proxy[j].catalog[1].body[1]

\* C22 as stated: two proxy search requests with identical lat, lon,
\* startDate, endDate and limit, served against an unchanged upstream
\* catalog, return identical imagery lists (same entries, same order),
\* regardless of what other requests the proxy served before or between.
C22_IdenticalQueriesAgree ==
  \A i, j \in ReqIds :
    (/\ Search200(i) /\ Search200(j)
     /\ proxy[i].q = proxy[j].q
     /\ SameCatalog(i, j)) =>
      proxy[i].response[1].body[1].imagery = proxy[j].response[1].body[1].imagery

\* C22, amended: two proxy search requests with identical lat, lon,
\* startDate, endDate and limit in which endDate is given, served against
\* an unchanged upstream catalog, return identical imagery lists (same
\* entries, same order), whatever other requests the proxy served before
\* or between them and whenever it served them.  (Without endDate the
\* window ends at the proxy's current date.)
C22_IdenticalSearchesAgree ==
  \A i, j \in ReqIds :
    (/\ Search200(i) /\ Search200(j)
     /\ proxy[i].q = proxy[j].q
     /\ "endDate" \in DOMAIN proxy[i].q[1]
     /\ SameCatalog(i, j)) =>
      proxy[i].response[1].body[1].imagery = proxy[j].response[1].body[1].imagery

C22_Witness ==
  \E i, j \in ReqIds :
    /\ i # j /\ Search200(i) /\ Search200(j)
    /\ proxy[i].q = proxy[j].q
    /\ "endDate" \in DOMAIN proxy[i].q[1]
    /\ today # proxy[i].q[1].endDate
    /\ Len(proxy[i].response[1].body[1].imagery) = LogSliceLen
    /\ proxy[i].response[1].body[1].imagery = proxy[j].response[1].body[1].imagery

\* C23: in every report set by a successful run, groundingSources equals
\* the source list collected in phase 2 and satelliteData equals the
\* phase-3 result (null when phase 3 was skipped); values for these two
\* fields contained in the model's phase-5 JSON never appear in the report.
C23_ReportAttachesPipelineState ==
  [][\A r \in Runs :
       (pc[r] = "p5_call" /\ pc'[r] = "done" /\ report' # None) =>
         /\ report'[1].groundingSources = frame[r].sources
         /\ report'[1].satelliteData = frame[r].satelliteData
         /\ \A f \in DOMAIN report'[1] \ {"groundingSources", "satelliteData"} :
              report'[1][f] = lastSettled'[1].answer[1].body[1][f]]_vars

C23_Witness ==
  \E r \in Runs :
    /\ Resolved(r, "report") /\ pc[r] = "done" /\ report # None
    /\ lastSettled[1].answer # None /\ lastSettled[1].answer[1].body # None
    /\ "groundingSources" \in DOMAIN lastSettled[1].answer[1].body[1]
    /\ report[1].groundingSources # lastSettled[1].answer[1].body[1].groundingSources
    /\ report[1].satelliteData # lastSettled[1].answer[1].body[1].satelliteData
    /\ report[1].verdict = "Disputed"

\* The phase an entry belongs to (0: the opening entries; 6: the error entry).
EntryPhase(e) ==
  CASE e.text = "PHASE 1" \/ e.text = "Visual clues extracted" -> 1
    [] e.text \in {"PHASE 2", "Location identified", "Location confidence",
                   "Found grounding sources"} -> 2
    [] e.text \in {"PHASE 3", "Found satellite images", "Image from",
                   "No recent satellite imagery"} -> 3
    [] e.text \in {"PHASE 4", "Time estimate", "Time confidence", "reasoning",
                   "Could not determine time"} -> 4
    [] e.text \in {"PHASE 5", "Verification complete", "Verdict"} -> 5
    [] e.type = "error" -> 6
    [] OTHER -> 0
\* The phase run r is in when it awaits at pc[r].
PcPhase(p) ==
  CASE p \in {"p1_read", "p1_call"} -> 1
    [] p \in {"p2_ground", "p2_struct"} -> 2
    [] p = "p3_fetch" -> 3
    [] p \in {"p4_read", "p4_call"} -> 4
    [] p \in {"p5_read", "p5_call"} -> 5
    [] OTHER -> 0
\* The positions of the log holding entries of phase k.
PhaseEntries(k) == {i \in DOMAIN log : EntryPhase(log[i]) = k}
\* The log of the current run is ordered by phase, each phase opening with
\* its 'processing' entry and, once left for a later phase or for the
\* report, holding a 'success' or 'warning' entry after it; while a phase
\* awaits its external call its 'processing' entry is the last entry.
LogWellOrdered ==
  /\ \A i, j \in DOMAIN log : i < j => EntryPhase(log[i]) <= EntryPhase(log[j])
  /\ \A k \in 1..5 :
       PhaseEntries(k) # {} =>
         LET first == CHOOSE i \in PhaseEntries(k) : \A j \in PhaseEntries(k) : i <= j
         IN /\ log[first].type = "processing"
            /\ \A j \in PhaseEntries(k) : j # first => log[j].type # "processing"
            /\ (\E j \in DOMAIN log : EntryPhase(log[j]) \in (k + 1)..5) =>
                 \E j \in PhaseEntries(k) : j > first /\ log[j].type \in {"success", "warning"}
  /\ \A r \in Runs :
       /\ PcPhase(pc[r]) # 0 =>
            /\ log # <<>>
            /\ Last(log) = Entry("processing", Last(log).text, "", r)
            /\ EntryPhase(Last(log)) = PcPhase(pc[r])
       /\ (pc[r] = "done" /\ Latest(r) /\ report # None) =>
            \A k \in {1, 2, 4, 5} :
              \E i, j \in PhaseEntries(k) :
                i < j /\ log[i].type = "processing" /\ log[j].type \in {"success", "warning"}

ThumbnailAnswered(i) ==
  proxy[i].op = "thumbnail" /\ proxy[i].pc = "responded" /\ proxy[i].response # None
\* The token fetch of request i failed: the handler answered without
\* having fetched the thumbnail.
TokenFetchFailed(i) == Len(proxy[i].calls) = 1
\* The thumbnail fetch of request i failed: it rejected, answered with a
\* status that is not ok, or its body could not be read.
ThumbnailFetchFailed(i) ==
  /\ proxy[i].thumbnail # None
  /\ \/ proxy[i].thumbnail[1].rejected
     \/ ~proxy[i].thumbnail[1].ok
     \/ proxy[i].thumbnail[1].body = None

\* C25: the proxy thumbnail operation answers with the 500 error envelope
\* whenever its token fetch or its thumbnail fetch fails, and otherwise
\* answers with the upstream body under the upstream content-type, or
\* image/png when the upstream response has no content-type; it never sends
\* both an image and an error envelope for one request.
C25_ThumbnailImageOrEnvelope ==
  \A i \in ReqIds :
    ThumbnailAnswered(i) =>
      LET res == proxy[i].response[1]
      IN IF TokenFetchFailed(i) \/ ThumbnailFetchFailed(i)
         THEN /\ res.status = 500
              /\ res.body # None
              /\ DOMAIN res.body[1] = {"error", "message", "details"}
              /\ res.body[1].error = "Thumbnail fetch failed"
              /\ "contentType" \notin DOMAIN res
         ELSE /\ res.status = 200
              /\ res.body = proxy[i].thumbnail[1].body
              /\ "error" \notin DOMAIN res.body[1]
              /\ res.contentType = IF proxy[i].thumbnail[1].contentType = ""
                                   THEN "image/png"
                                   ELSE proxy[i].thumbnail[1].contentType

C25_Witness ==
  \E i, j \in ReqIds :
    /\ ThumbnailAnswered(i) /\ proxy[i].response[1].status = 200
    /\ proxy[i].thumbnail[1].contentType = ""
    /\ proxy[i].response[1].contentType = "image/png"
    /\ ThumbnailAnswered(j) /\ ThumbnailFetchFailed(j)
    /\ proxy[j].response[1].status = 500

\* The runs started and not yet finished.
InFlight == {r \in Runs : pc[r] # "idle" /\ pc[r] \notin Finished}

\* C26: when runs are started only through the Analyze button, which is
\* enabled only while isLoading is false and a file is selected, at most one
\* pipeline run is in flight at any time in a UI session.
C26_OneRunInFlight ==
  /\ Cardinality(InFlight) <= 1
  /\ \A c \in inflight : c.run \in InFlight

C26_Witness ==
  \E r, q \in Runs :
    /\ r < q /\ pc[r] = "done"
    /\ InFlight = {q} /\ \E c \in inflight : c.run = q

\* The calls a run issues, in order, when every phase runs.
FullCallOrder == <<"clues", "grounding", "structuring", "imagery", "timestamp", "report">>
IsCompletionCall(k) == k # "imagery"
IsImageryCall(k) == k = "imagery"
\* The completion-service calls among the calls issued so far by run r.
CompletionCalls(r) == SelectSeq(frame[r].issued, IsCompletionCall)
ImageryCalls(r) == SelectSeq(frame[r].issued, IsImageryCall)
\* No run has issued more than five completion calls or more than one
\* imagery search, and the calls follow the phase order.
CallsBounded ==
  \A r \in Runs :
    /\ Len(CompletionCalls(r)) <= 5
    /\ Len(ImageryCalls(r)) <= 1
    /\ IsPrefix(CompletionCalls(r), SelectSeq(FullCallOrder, IsCompletionCall))

\* C27: a run that ends with a report has made exactly five
\* completion-service calls (one in phase 1, two in phase 2, one in phase 4,
\* one in phase 5) and at most one imagery search; no run makes more than
\* five completion-service calls or more than one imagery search, whatever
\* the call outcomes.
C27_CallCounts ==
  [][/\ CallsBounded'
     /\ \A r \in Runs :
          (/\ pc[r] # "done" /\ pc'[r] = "done"
           /\ report' # None /\ Last(log').type # "error") =>
            /\ CompletionCalls(r) = <<"clues", "grounding", "structuring",
                                      "timestamp", "report">>
            /\ Len(ImageryCalls(r)) <= 1
            /\ \A c \in inflight' : c.run # r]_vars

C27_Witness ==
  \E r \in Runs :
    /\ pc[r] = "p5_call"
    /\ Len(CompletionCalls(r)) = 5 /\ Len(ImageryCalls(r)) = 1

\* The imagery searches requested and not yet answered.
ImagerySearches == {c \in inflight : c.kind = "imagery"}
\* The end date phase 3 is to ask for in run r.
WindowEnd(r) ==
  IF frame[r].claimedTimestamp # <<>> THEN frame[r].claimedTimestamp[1] ELSE today

\* C28: the imagery search window requested in phase 3 ends at the date
\* part of claimedTimestamp when one was given and at the current date
\* otherwise, and starts exactly 30 days before that end date; the limit
\* requested is 5.
C28_SearchWindow ==
  [][\A c \in ImagerySearches' \ ImagerySearches :
       /\ c.arg[1].endDate = WindowEnd(c.run)'
       /\ c.arg[1].startDate = c.arg[1].endDate - 30
       /\ c.arg[1].limit = 5]_vars

\* The window as the code requests it: its end and limit as stated, its
\* start 29, 30 or 31 days before its end.
SearchWindowWithinADay ==
  [][\A c \in ImagerySearches' \ ImagerySearches :
       /\ c.arg[1].endDate = WindowEnd(c.run)'
       /\ c.arg[1].endDate - c.arg[1].startDate \in 29..31
       /\ c.arg[1].limit = 5]_vars

\* The log holds the completion entry of run r.
CompletionLogged(r) ==
  \E i \in DOMAIN log : log[i] = Entry("success", "Verification complete", "", r)

\* C29: in a session where runs do not overlap, report and error are never
\* both non-null: report is set only by a run that logs the 'success'
\* completion entry and no 'error' entry, and error is set only by a run
\* that set no report.
C29_ReportXorError ==
  /\ ~(report # None /\ error # None)
  /\ report # None =>
       \E r \in Runs :
         /\ Latest(r) /\ pc[r] = "done"
         /\ CompletionLogged(r)
         /\ ErrorEntries = {}
  /\ error # None =>
       \E r \in Runs :
         /\ Latest(r) /\ pc[r] = "done"
         /\ ~CompletionLogged(r)
         /\ Last(log).type = "error"
         /\ report = None

C29_Witness ==
  /\ pc[1] = "done" /\ pc[2] = "done"
  /\ report # None /\ error = None
  /\ CompletionLogged(2)


\* C30: for any interleaving of runs started through runVerification,
\* isLoading is true in every state in which at least one started run has
\* not yet finished, and is false only when no run is in flight.
C30_LoadingWhileInFlight ==
  /\ InFlight # {} => isLoading
  /\ ~isLoading => (InFlight = {} /\ inflight = {})

====
